---- MODULE Spec2Model ----
(***************************************************************************)
(* Model of the DoubleChain index arena (double_chain.cpp): two closed     *)
(* lists threaded through one array of cells, plus a timestamp per slot.   *)
(* Every operation is translated statement by statement; the lists are     *)
(* never stored separately, they are read back from the cells' links.      *)
(***************************************************************************)
EXTENDS Integers, Sequences, FiniteSets, TLC

\* Largest capacity (index_range) the constructor is run with.
MaxIndexRange == 3

\* Number of distinct flow keys the callers of FlowTracker use.
MaxFlows == 3

\* Largest capacity a FlowTracker is constructed with.
MaxCapacity == 2

\* Number of packets fed to traffic_stats_tracker_t.
MaxPkts == 3

\* Number of packets in the capture file trace_replayer replays.
MaxTraceLen == 2

\* Number of files the process may have open at a time, beyond the ones it
\* starts with.
MaxOpenFiles == 3

DCHAIN_RESERVED == 2
EXPIRATION_TIME_NS == 1000000000
ALLOC_LIST_HEAD == 0
FREE_LIST_HEAD == 1
INDEX_SHIFT == DCHAIN_RESERVED

\* Values of the time_ns_t argument the callers supply.
Times == {0, EXPIRATION_TIME_NS, 2 * EXPIRATION_TIME_NS + 1}

\* index_out of a call that did not write it.
NoIndex == -1

\* Flow keys: flow_t values, told apart by their five-tuple; 0 is the all-zero
\* five-tuple flow_t() constructs.
Flows == 0 .. (MaxFlows - 1)
DefaultFlow == 0

\* first_seen of a flow that is not tracked.
NoTime == -1

\* main.cpp: the default of --epoch.
DEFAULT_EPOCH_DURATION_NS == 1000000000

\* One microsecond, the resolution of the timestamps of a capture file
\* (read_next_packet: tv_sec * 1'000'000'000 + tv_usec * 1'000).
USEC_NS == 1000

\* packet_t: the timestamps packets carry, and std::nullopt for a packet
\* without a flow.
PktTimes == {0, USEC_NS, DEFAULT_EPOCH_DURATION_NS}
NoFlow == -1

\* Values of --epoch: two short ones and the default.
ShortEpochs == {USEC_NS, 3 * USEC_NS}
EpochDurations == ShortEpochs \cup {DEFAULT_EPOCH_DURATION_NS}

\* Timestamps of the records in a replayed capture file, the flows their
\* headers can give, and the link types the reader takes.
TraceTimes == {0, USEC_NS, 2 * USEC_NS}
TraceFlows == {DefaultFlow, DefaultFlow + 1}
LinkTypes == {"DLT_EN10MB", "DLT_RAW"}

VARIABLES index_range, cells, timestamps, last, fresh,
          flow_to_index, index_to_flow, first_seen, tcall, panicked,
          clock, report, flows, concurrent_flows_per_epoch, fed, ticks, replay

\* What FlowTracker adds to its DoubleChain, and its caller's view.
trackerVars == <<flow_to_index, index_to_flow, first_seen, tcall, panicked>>

driverVars == <<clock, report, flows, concurrent_flows_per_epoch, fed, ticks, replay>>

vars == <<index_range, cells, timestamps, last, fresh, trackerVars, driverVars>>

Slots == 0 .. (index_range - 1)

\* The state: the constructor's argument, std::vector<dchain_cell_t> cells
\* (two head cells, then one cell per slot), std::vector<time_ns_t> timestamps,
\* and on the caller's side the call made last and the history of a fresh arena;
\* then FlowTracker's two tables over that DoubleChain, the FlowTracker call
\* made last, the time each tracked flow was first inserted, and whether the
\* process ended in panic(); then traffic_stats_tracker_t's clock, report and
\* flow sets, the packet fed last, how many ticks of the clock returned true
\* and the now of the last one, and trace_replayer's file (link type and
\* records), its reader
\* (position, assume_ip), base_time, the flow member of its local packet, the
\* readers left open and its place in its two loops.
TypeOK ==
  /\ index_range \in 1 .. MaxIndexRange
  /\ DOMAIN cells = 0 .. (index_range + DCHAIN_RESERVED - 1)
  /\ \A i \in DOMAIN cells : cells[i].prev \in DOMAIN cells /\ cells[i].next \in DOMAIN cells
  /\ DOMAIN timestamps = Slots
  /\ \A i \in Slots : timestamps[i] \in Times
  /\ last.op \in {"DoubleChain", "allocate_new_index", "rejuvenate_index", "free_index",
                 "expire_one_index", "is_index_allocated"}
  /\ last.index \in Slots \cup {-1}
  /\ last.time \in Times
  /\ last.ret \in BOOLEAN
  /\ fresh.live \in BOOLEAN
  /\ Len(fresh.outs) <= index_range + 1
  /\ DOMAIN flow_to_index \subseteq Flows
  /\ \A f \in DOMAIN flow_to_index : flow_to_index[f] \in Slots
  /\ index_to_flow \in [Slots -> Flows]
  /\ first_seen \in [Flows -> Times \cup {NoTime}]
  /\ tcall.op \in {"FlowTracker", "has_flow", "add_flow", "expire_flows"}
  /\ tcall.flow \in Flows /\ tcall.now \in Times /\ tcall.ret \in BOOLEAN
  /\ tcall.count \in 0 .. index_range
  /\ panicked \in BOOLEAN
  /\ clock.on \in BOOLEAN
  /\ clock.epoch_duration \in EpochDurations
  /\ clock.alarm \in Nat
  /\ report.start \in Nat /\ report.end \in Nat
  /\ report.total_pkts \in Nat /\ report.tcpudp_pkts \in 0 .. report.total_pkts
  /\ flows \subseteq Flows
  /\ Len(concurrent_flows_per_epoch) >= 1
  /\ \A e \in 1 .. Len(concurrent_flows_per_epoch) : concurrent_flows_per_epoch[e] \subseteq Flows
  /\ fed.ts \in Nat /\ fed.flow \in Flows \cup {NoFlow}
  /\ ticks.sounded \in Nat /\ ticks.last_sound \in Nat \cup {NoTime}
  /\ replay.pc \in {"off", "while", "read", "done"}
  /\ Len(replay.trace) <= MaxTraceLen
  /\ replay.pos \in 0 .. (Len(replay.trace) + 1)
  /\ replay.base_time \in Nat
  /\ replay.assume_ip \in BOOLEAN
  /\ replay.linktype \in LinkTypes
  /\ replay.flow \in Flows \cup {NoFlow}
  /\ replay.open \in 0 .. MaxOpenFiles

----------------------------------------------------------------------------
\* Single field assignments on the cell array (cells[i].next = v, cells[i].prev = v).
SetNext(c, i, v) == [c EXCEPT ![i].next = v]

SetPrev(c, i, v) == [c EXCEPT ![i].prev = v]

\* DoubleChain::DoubleChain: the alloc head points at itself, the free list
\* threads every real cell in index order and closes on FREE_LIST_HEAD.
DoubleChain(n) ==
  [i \in 0 .. (n + DCHAIN_RESERVED - 1) |->
     IF i = ALLOC_LIST_HEAD THEN [prev |-> 0, next |-> 0]
     ELSE IF i = FREE_LIST_HEAD THEN [prev |-> INDEX_SHIFT, next |-> INDEX_SHIFT]
     ELSE IF i < n + INDEX_SHIFT - 1 THEN [prev |-> i + 1, next |-> i + 1]
     ELSE [prev |-> FREE_LIST_HEAD, next |-> FREE_LIST_HEAD]]

\* timestamps(index_range): value-initialised vector.
InitTimestamps(n) == [i \in 0 .. (n - 1) |-> 0]

----------------------------------------------------------------------------
\* The lists as the links encode them: follow next from a head cell until the
\* head comes back (fuel stops a walk that never returns).
RECURSIVE Walk(_, _, _, _)
Walk(c, head, cur, fuel) ==
  IF cur = head \/ fuel = 0 THEN <<>>
  ELSE <<cur - INDEX_SHIFT>> \o Walk(c, head, c[cur].next, fuel - 1)

ListFrom(c, head) == Walk(c, head, c[head].next, Cardinality(DOMAIN c))

\* Same walk following prev (newest to oldest on the alloc list).
RECURSIVE WalkBack(_, _, _, _)
WalkBack(c, head, cur, fuel) ==
  IF cur = head \/ fuel = 0 THEN <<>>
  ELSE <<cur - INDEX_SHIFT>> \o WalkBack(c, head, c[cur].prev, fuel - 1)

AllocSeq == ListFrom(cells, ALLOC_LIST_HEAD)
FreeSeq == ListFrom(cells, FREE_LIST_HEAD)
AllocSeqBack == WalkBack(cells, ALLOC_LIST_HEAD, cells[ALLOC_LIST_HEAD].prev, Cardinality(DOMAIN cells))

Range(s) == {s[i] : i \in 1 .. Len(s)}

Occupied == Range(AllocSeq)
Free == Range(FreeSeq)

----------------------------------------------------------------------------
\* Result of a call: what it returns, the index_out it wrote (NoIndex if it
\* wrote none) and the arena it leaves.
Result(ret, index_out, c, ts) == [ret |-> ret, index_out |-> index_out, cells |-> c, timestamps |-> ts]

\* Mutant: reads the newest end of the alloc list instead of the oldest.
get_oldest_index_newest(c) ==
  IF c[ALLOC_LIST_HEAD].next = ALLOC_LIST_HEAD THEN NoIndex
  ELSE c[ALLOC_LIST_HEAD].prev - INDEX_SHIFT

\* DoubleChain::get_oldest_index: NoIndex when the alloc list is empty.
get_oldest_index(c) ==
  IF c[ALLOC_LIST_HEAD].next = ALLOC_LIST_HEAD THEN NoIndex
  ELSE c[ALLOC_LIST_HEAD].next - INDEX_SHIFT

\* Mutant: the emptiness test compares with the wrong head.
allocate_new_index_wrong_head(c, ts, time) ==
  LET allocated == c[FREE_LIST_HEAD].next
      c1 == SetNext(c, FREE_LIST_HEAD, c[allocated].next)
      c2 == SetPrev(c1, FREE_LIST_HEAD, c1[FREE_LIST_HEAD].next)
      c3 == SetNext(c2, allocated, ALLOC_LIST_HEAD)
      c4 == SetPrev(c3, allocated, c3[ALLOC_LIST_HEAD].prev)
      c5 == SetNext(c4, c4[ALLOC_LIST_HEAD].prev, allocated)
      c6 == SetPrev(c5, ALLOC_LIST_HEAD, allocated)
      index_out == allocated - INDEX_SHIFT
  IN  IF allocated = ALLOC_LIST_HEAD
      THEN Result(FALSE, NoIndex, c, ts)
      ELSE Result(TRUE, index_out, c6, [ts EXCEPT ![index_out] = time])

\* Mutant: the new slot's timestamp is not stored.
allocate_new_index_no_stamp(c, ts, time) ==
  LET allocated == c[FREE_LIST_HEAD].next
      c1 == SetNext(c, FREE_LIST_HEAD, c[allocated].next)
      c2 == SetPrev(c1, FREE_LIST_HEAD, c1[FREE_LIST_HEAD].next)
      c3 == SetNext(c2, allocated, ALLOC_LIST_HEAD)
      c4 == SetPrev(c3, allocated, c3[ALLOC_LIST_HEAD].prev)
      c5 == SetNext(c4, c4[ALLOC_LIST_HEAD].prev, allocated)
      c6 == SetPrev(c5, ALLOC_LIST_HEAD, allocated)
      index_out == allocated - INDEX_SHIFT
  IN  IF allocated = FREE_LIST_HEAD
      THEN Result(FALSE, NoIndex, c, ts)
      ELSE Result(TRUE, index_out, c6, ts)

\* allocate_new_index that links the cell at the old end of the alloc list.
allocate_new_index_at_front(c, ts, time) ==
  LET allocated == c[FREE_LIST_HEAD].next
      c1 == SetNext(c, FREE_LIST_HEAD, c[allocated].next)
      c2 == SetPrev(c1, FREE_LIST_HEAD, c1[FREE_LIST_HEAD].next)
      c3 == SetPrev(c2, allocated, ALLOC_LIST_HEAD)
      c4 == SetNext(c3, allocated, c3[ALLOC_LIST_HEAD].next)
      c5 == SetPrev(c4, c4[ALLOC_LIST_HEAD].next, allocated)
      c6 == SetNext(c5, ALLOC_LIST_HEAD, allocated)
      index_out == allocated - INDEX_SHIFT
  IN  IF allocated = FREE_LIST_HEAD
      THEN Result(FALSE, NoIndex, c, ts)
      ELSE Result(TRUE, index_out, c6, [ts EXCEPT ![index_out] = time])

\* DoubleChain::allocate_new_index, one assignment after the other.
allocate_new_index(c, ts, time) ==
  LET allocated == c[FREE_LIST_HEAD].next
      c1 == SetNext(c, FREE_LIST_HEAD, c[allocated].next)
      c2 == SetPrev(c1, FREE_LIST_HEAD, c1[FREE_LIST_HEAD].next)
      c3 == SetNext(c2, allocated, ALLOC_LIST_HEAD)
      c4 == SetPrev(c3, allocated, c3[ALLOC_LIST_HEAD].prev)
      c5 == SetNext(c4, c4[ALLOC_LIST_HEAD].prev, allocated)
      c6 == SetPrev(c5, ALLOC_LIST_HEAD, allocated)
      index_out == allocated - INDEX_SHIFT
  IN  IF allocated = FREE_LIST_HEAD
      THEN Result(FALSE, NoIndex, c, ts)
      ELSE Result(TRUE, index_out, c6, [ts EXCEPT ![index_out] = time])

\* Mutant: the timestamp is written before the "not allocated" test.
rejuvenate_index_stamp_first(c, ts, index, time) ==
  LET lifted == index + INDEX_SHIFT
      lifted_next == c[lifted].next
      lifted_prev == c[lifted].prev
      c1 == SetNext(c, lifted_prev, lifted_next)
      c2 == SetPrev(c1, lifted_next, lifted_prev)
      al_head_prev == c2[ALLOC_LIST_HEAD].prev
      c3 == SetNext(c2, lifted, ALLOC_LIST_HEAD)
      c4 == SetPrev(c3, lifted, al_head_prev)
      c5 == SetNext(c4, al_head_prev, lifted)
      c6 == SetPrev(c5, ALLOC_LIST_HEAD, lifted)
      stamped == [ts EXCEPT ![index] = time]
  IN  IF lifted_next = lifted_prev
      THEN IF lifted_next # ALLOC_LIST_HEAD
           THEN Result(FALSE, NoIndex, c, stamped)
           ELSE Result(TRUE, NoIndex, c, stamped)
      ELSE Result(TRUE, NoIndex, c6, stamped)

\* Mutant: the timestamp is refreshed but the cell is not relinked.
rejuvenate_index_no_relink(c, ts, index, time) ==
  LET lifted == index + INDEX_SHIFT
      lifted_next == c[lifted].next
      lifted_prev == c[lifted].prev
  IN  IF lifted_next = lifted_prev
      THEN IF lifted_next # ALLOC_LIST_HEAD
           THEN Result(FALSE, NoIndex, c, ts)
           ELSE Result(TRUE, NoIndex, c, ts)
      ELSE Result(TRUE, NoIndex, c, [ts EXCEPT ![index] = time])

\* DoubleChain::rejuvenate_index.  Equal links mean "not allocated" unless both
\* are ALLOC_LIST_HEAD, which means "the only allocated cell": that case
\* returns true before anything is written.
rejuvenate_index(c, ts, index, time) ==
  LET lifted == index + INDEX_SHIFT
      lifted_next == c[lifted].next
      lifted_prev == c[lifted].prev
      c1 == SetNext(c, lifted_prev, lifted_next)
      c2 == SetPrev(c1, lifted_next, lifted_prev)
      al_head_prev == c2[ALLOC_LIST_HEAD].prev
      c3 == SetNext(c2, lifted, ALLOC_LIST_HEAD)
      c4 == SetPrev(c3, lifted, al_head_prev)
      c5 == SetNext(c4, al_head_prev, lifted)
      c6 == SetPrev(c5, ALLOC_LIST_HEAD, lifted)
  IN  IF lifted_next = lifted_prev
      THEN IF lifted_next # ALLOC_LIST_HEAD
           THEN Result(FALSE, NoIndex, c, ts)
           ELSE Result(TRUE, NoIndex, c, ts)
      ELSE Result(TRUE, NoIndex, c6, [ts EXCEPT ![index] = time])

\* Mutant: the cell is pushed on the free list without being taken off the
\* alloc list.
free_index_no_unlink(c, ts, index) ==
  LET freed == index + INDEX_SHIFT
      freed_prev == c[freed].prev
      freed_next == c[freed].next
      c3 == SetNext(c, freed, c[FREE_LIST_HEAD].next)
      c4 == SetPrev(c3, freed, c3[freed].next)
      c5 == SetNext(c4, FREE_LIST_HEAD, freed)
      c6 == SetPrev(c5, FREE_LIST_HEAD, c5[FREE_LIST_HEAD].next)
  IN  IF freed_next = freed_prev /\ freed_prev # ALLOC_LIST_HEAD
      THEN Result(FALSE, NoIndex, c, ts)
      ELSE Result(TRUE, NoIndex, c6, ts)

\* Mutant: equal links always mean "already free", the only allocated cell
\* included.
free_index_equal_is_free(c, ts, index) ==
  LET freed == index + INDEX_SHIFT
      freed_prev == c[freed].prev
      freed_next == c[freed].next
      c1 == SetNext(c, freed_prev, freed_next)
      c2 == SetPrev(c1, freed_next, freed_prev)
      c3 == SetNext(c2, freed, c2[FREE_LIST_HEAD].next)
      c4 == SetPrev(c3, freed, c3[freed].next)
      c5 == SetNext(c4, FREE_LIST_HEAD, freed)
      c6 == SetPrev(c5, FREE_LIST_HEAD, c5[FREE_LIST_HEAD].next)
  IN  IF freed_next = freed_prev
      THEN Result(FALSE, NoIndex, c, ts)
      ELSE Result(TRUE, NoIndex, c6, ts)

\* Mutant: the freed cell closes the free list instead of heading the old one.
free_index_drops_free_list(c, ts, index) ==
  LET freed == index + INDEX_SHIFT
      freed_prev == c[freed].prev
      freed_next == c[freed].next
      c1 == SetNext(c, freed_prev, freed_next)
      c2 == SetPrev(c1, freed_next, freed_prev)
      c3 == SetNext(c2, freed, FREE_LIST_HEAD)
      c4 == SetPrev(c3, freed, c3[freed].next)
      c5 == SetNext(c4, FREE_LIST_HEAD, freed)
      c6 == SetPrev(c5, FREE_LIST_HEAD, c5[FREE_LIST_HEAD].next)
  IN  IF freed_next = freed_prev /\ freed_prev # ALLOC_LIST_HEAD
      THEN Result(FALSE, NoIndex, c, ts)
      ELSE Result(TRUE, NoIndex, c6, ts)

\* DoubleChain::free_index.
free_index(c, ts, index) ==
  LET freed == index + INDEX_SHIFT
      freed_prev == c[freed].prev
      freed_next == c[freed].next
      c1 == SetNext(c, freed_prev, freed_next)
      c2 == SetPrev(c1, freed_next, freed_prev)
      c3 == SetNext(c2, freed, c2[FREE_LIST_HEAD].next)
      c4 == SetPrev(c3, freed, c3[freed].next)
      c5 == SetNext(c4, FREE_LIST_HEAD, freed)
      c6 == SetPrev(c5, FREE_LIST_HEAD, c5[FREE_LIST_HEAD].next)
  IN  IF freed_next = freed_prev /\ freed_prev # ALLOC_LIST_HEAD
      THEN Result(FALSE, NoIndex, c, ts)
      ELSE Result(TRUE, NoIndex, c6, ts)

\* Mutant: the age test is not strict.
is_expired_inclusive(stamp, time) == stamp <= time - EXPIRATION_TIME_NS

\* The age test with the difference taken in u64: below EXPIRATION_TIME_NS
\* it wraps to a value above every timestamp.
is_expired_unsigned(stamp, time) ==
  IF time - EXPIRATION_TIME_NS < 0 THEN TRUE ELSE stamp < time - EXPIRATION_TIME_NS

\* The age test of expire_one_index.
is_expired(stamp, time) == stamp < time - EXPIRATION_TIME_NS

\* DoubleChain::expire_one_index: index_out is written by get_oldest_index
\* whenever some index is allocated, evicted or not.
expire_one_index(c, ts, time) ==
  LET index_out == get_oldest_index(c)
      freed == free_index(c, ts, index_out)
  IN  IF index_out # NoIndex /\ is_expired(ts[index_out], time)
      THEN Result(freed.ret, index_out, freed.cells, freed.timestamps)
      ELSE Result(FALSE, index_out, c, ts)

\* is_index_allocated that reads equal links as Free whatever they point at.
is_index_allocated_equal_is_free(c, index) ==
  LET lifted == index + INDEX_SHIFT
  IN  c[lifted].next # c[lifted].prev

\* DoubleChain::is_index_allocated: a cell whose two links are equal is Free
\* unless both point at ALLOC_LIST_HEAD (the only allocated cell).
is_index_allocated(c, index) ==
  LET lifted == index + INDEX_SHIFT
      lifted_next == c[lifted].next
      lifted_prev == c[lifted].prev
  IN  IF lifted_next = lifted_prev
      THEN IF lifted_next # ALLOC_LIST_HEAD THEN FALSE ELSE TRUE
      ELSE TRUE

----------------------------------------------------------------------------
\* FlowTracker (flow_tracker.h, flow_tracker.cpp): flow_to_index is the
\* unordered_map, a function on the keys it holds; index_to_flow the vector.
EmptyMap == [f \in {} |-> 0]

\* An erase that leaves the key in the map.
MapErase_keeps(m, key) == m

\* unordered_map::erase(key) and operator[](key) = value.
MapErase(m, key) == [k \in (DOMAIN m) \ {key} |-> m[k]]

MapPut(m, key, value) == [k \in (DOMAIN m) \cup {key} |-> IF k = key THEN value ELSE m[k]]

\* panic(fmt, ...): reports the message and ends the process; control does
\* not come back to the caller.
panic_returns == FALSE

\* FlowTracker::has_flow.
has_flow(f2i, flow) == flow \in DOMAIN f2i

\* What an add_flow / expire_flows call leaves: the DoubleChain, the two
\* tables, the count expire_flows returns, the DoubleChain call it made last
\* (its index_out and result) and whether it ended in panic().
TrackerResult(c, ts, f2i, i2f, count, called, index_out, ret, panic) ==
  [cells |-> c, timestamps |-> ts, flow_to_index |-> f2i, index_to_flow |-> i2f,
   count |-> count, called |-> called, index_out |-> index_out, ret |-> ret, panic |-> panic]

\* add_flow without the has_flow early return.
add_flow_always_allocates(c, ts, f2i, i2f, flow, now) ==
  LET r == allocate_new_index(c, ts, now)
  IN  IF ~r.ret
      THEN TrackerResult(r.cells, r.timestamps, f2i, i2f, 0, TRUE, r.index_out, FALSE, ~panic_returns)
      ELSE TrackerResult(r.cells, r.timestamps,
                         MapPut(f2i, flow, r.index_out),
                         [i2f EXCEPT ![r.index_out] = flow],
                         0, TRUE, r.index_out, TRUE, FALSE)

\* add_flow that does not write the index_to_flow entry.
add_flow_no_reverse_entry(c, ts, f2i, i2f, flow, now) ==
  LET r == allocate_new_index(c, ts, now)
  IN  IF has_flow(f2i, flow)
      THEN TrackerResult(c, ts, f2i, i2f, 0, FALSE, NoIndex, TRUE, FALSE)
      ELSE IF ~r.ret
      THEN TrackerResult(r.cells, r.timestamps, f2i, i2f, 0, TRUE, r.index_out, FALSE, ~panic_returns)
      ELSE TrackerResult(r.cells, r.timestamps,
                         MapPut(f2i, flow, r.index_out), i2f,
                         0, TRUE, r.index_out, TRUE, FALSE)

\* add_flow that rejuvenates the slot of a flow it already tracks.
add_flow_rejuvenates(c, ts, f2i, i2f, flow, now) ==
  LET r == allocate_new_index(c, ts, now)
  IN  IF has_flow(f2i, flow)
      THEN LET j == rejuvenate_index(c, ts, f2i[flow], now)
           IN  TrackerResult(j.cells, j.timestamps, f2i, i2f, 0, FALSE, NoIndex, TRUE, FALSE)
      ELSE IF ~r.ret
      THEN TrackerResult(r.cells, r.timestamps, f2i, i2f, 0, TRUE, r.index_out, FALSE, ~panic_returns)
      ELSE TrackerResult(r.cells, r.timestamps,
                         MapPut(f2i, flow, r.index_out),
                         [i2f EXCEPT ![r.index_out] = flow],
                         0, TRUE, r.index_out, TRUE, FALSE)

\* FlowTracker::add_flow.  panic() ends the process: nothing after it runs.
add_flow(c, ts, f2i, i2f, flow, now) ==
  LET r == allocate_new_index(c, ts, now)
  IN  IF has_flow(f2i, flow)
      THEN TrackerResult(c, ts, f2i, i2f, 0, FALSE, NoIndex, TRUE, FALSE)
      ELSE IF ~r.ret
      THEN TrackerResult(r.cells, r.timestamps, f2i, i2f, 0, TRUE, r.index_out, FALSE, ~panic_returns)
      ELSE TrackerResult(r.cells, r.timestamps,
                         MapPut(f2i, flow, r.index_out),
                         [i2f EXCEPT ![r.index_out] = flow],
                         0, TRUE, r.index_out, TRUE, FALSE)

\* FlowTracker::expire_flows: the while loop, one expire_one_index per round.
\* Every round frees a cell, so the loop ends within as many rounds as there
\* are cells; fuel is that number.
RECURSIVE expire_loop(_, _, _, _, _, _, _)
expire_loop(c, ts, f2i, i2f, now, expired_count, fuel) ==
  LET r == expire_one_index(c, ts, now)
  IN  IF r.ret /\ fuel > 0
      THEN expire_loop(r.cells, r.timestamps, MapErase(f2i, i2f[r.index_out]), i2f,
                       now, expired_count + 1, fuel - 1)
      ELSE TrackerResult(r.cells, r.timestamps, f2i, i2f, expired_count,
                         TRUE, r.index_out, r.ret, FALSE)

\* expire_flows that also counts the expire_one_index call that ended the loop.
expire_flows_counts_calls(c, ts, f2i, i2f, now) ==
  LET r == expire_loop(c, ts, f2i, i2f, now, 0, Cardinality(DOMAIN c))
  IN  [r EXCEPT !.count = r.count + 1]

expire_flows(c, ts, f2i, i2f, now) ==
  expire_loop(c, ts, f2i, i2f, now, 0, Cardinality(DOMAIN c))

\* Record of the FlowTracker call just made: name, flow argument, now
\* argument, has_flow's result (TRUE for a call that returned nothing) and
\* expire_flows' count.
TrackerCall(op, flow, now, ret, count) ==
  [op |-> op, flow |-> flow, now |-> now, ret |-> ret, count |-> count]

----------------------------------------------------------------------------
\* traffic_stats_tracker_t (traffic_stats_tracker.h, traffic_stats_tracker.cpp)
\* and its simulator_clock_t (clock.h).
Packet(ts, flow) == [ts |-> ts, flow |-> flow]

simulator_clock_t(epoch_duration) ==
  [epoch_duration |-> epoch_duration, on |-> FALSE, alarm |-> 0]

\* report_t(): the members feed_packet reads or counts with.
report_t == [start |-> 0, end |-> 0, total_pkts |-> 0, tcpudp_pkts |-> 0]

\* tick that compares now with the alarm before it looks at on.
tick_sounds_when_off(clk, now) ==
  IF now >= clk.alarm
  THEN [clock |-> [clk EXCEPT !.on = TRUE, !.alarm = now + clk.epoch_duration],
        sound_alarm |-> TRUE]
  ELSE [clock |-> [clk EXCEPT !.on = TRUE], sound_alarm |-> FALSE]

\* simulator_clock_t::tick: the clock it leaves and the value it returns.
tick(clk, now) ==
  IF ~clk.on
  THEN [clock |-> [clk EXCEPT !.on = TRUE, !.alarm = now + clk.epoch_duration],
        sound_alarm |-> FALSE]
  ELSE IF now >= clk.alarm
  THEN [clock |-> [clk EXCEPT !.alarm = now + clk.epoch_duration], sound_alarm |-> TRUE]
  ELSE [clock |-> clk, sound_alarm |-> FALSE]

\* traffic_stats_tracker_t::feed_packet, on the members that decide what it
\* does and on the flow sets; the size CDF and the per-flow packet, byte and
\* time tables are only written.  The member flow_tracker does not occur in it.
feed_packet(clk, rep, fl, epochs, pkt) ==
  LET rep1 == [rep EXCEPT !.end = pkt.ts]
      rep2 == IF rep1.start = 0 THEN [rep1 EXCEPT !.start = pkt.ts] ELSE rep1
      rep3 == [rep2 EXCEPT !.total_pkts = @ + 1]
      t == tick(clk, pkt.ts)
      epochs1 == IF t.sound_alarm THEN Append(epochs, {}) ELSE epochs
      rep4 == [rep3 EXCEPT !.tcpudp_pkts = @ + 1]
  IN  IF pkt.flow = NoFlow
      THEN [clock |-> clk, report |-> rep3, flows |-> fl,
            concurrent_flows_per_epoch |-> epochs, sound_alarm |-> FALSE]
      ELSE [clock |-> t.clock, report |-> rep4, flows |-> fl \cup {pkt.flow},
            concurrent_flows_per_epoch |->
              [epochs1 EXCEPT ![Len(epochs1)] = @ \cup {pkt.flow}],
            sound_alarm |-> t.sound_alarm]

\* The count of the ticks that returned true and the now of the last of them,
\* after a feed_packet whose tick returned sound_alarm.
Ticked(tk, sound_alarm, now) ==
  IF sound_alarm THEN [sounded |-> tk.sounded + 1, last_sound |-> now] ELSE tk

\* trace_replayer's state: the capture file (its link type and records), the
\* position of the reader of this pass in it and its member assume_ip,
\* base_time, the flow member of the local packet, the number of readers
\* constructed so far (none is ever closed), and where the function is: at
\* the while test, in the read loop, or returned ("off": it was not called).
Replayer(linktype, trace, pos, base_time, pc, assume_ip, flow, open) ==
  [linktype |-> linktype, trace |-> trace, pos |-> pos, base_time |-> base_time,
   pc |-> pc, assume_ip |-> assume_ip, flow |-> flow, open |-> open]

NoReplay == Replayer("DLT_EN10MB", <<>>, 0, 0, "off", FALSE, NoFlow, 0)

\* A record of a capture file, by what read_next_packet can get out of it:
\* its timestamp; eth, the flow of the TCP/UDP header found when the bytes
\* are parsed as an Ethernet frame (NoFlow: it is no IPv4 TCP/UDP frame);
\* ip, the same when the bytes are parsed from offset 0 as an IPv4 packet.
\* For an Ethernet frame ip is made of the MAC addresses and what follows.
Records == [ts : TraceTimes, eth : TraceFlows \cup {NoFlow}, ip : TraceFlows \cup {NoFlow}]

\* The records of a capture file of a link type: up to MaxTraceLen of them in
\* time order.  A DLT_RAW file has no Ethernet headers: eth is never read.
Traces(linktype) ==
  { tr \in UNION { [1 .. n -> Records] : n \in 1 .. MaxTraceLen } :
      /\ \A i \in 1 .. (Len(tr) - 1) : tr[i].ts <= tr[i + 1].ts
      /\ linktype = "DLT_RAW" => \A i \in 1 .. Len(tr) : tr[i].eth = NoFlow }

\* pcap_reader_t::read_next_packet on a record: ts is written always, flow
\* only when the parse gets down to a TCP/UDP header; otherwise
\* read_data.flow keeps what it held.  assume_ip decides where the IPv4
\* header is read: at offset 0, or after the Ethernet header.
read_next_packet(assume_ip, read_data_flow, record) ==
  LET parsed == IF assume_ip THEN record.ip ELSE record.eth
  IN  Packet(record.ts, IF parsed # NoFlow THEN parsed ELSE read_data_flow)

----------------------------------------------------------------------------
\* Record of the call just made: its name, its index (the argument of
\* rejuvenate_index / free_index, the index_out of allocate_new_index /
\* expire_one_index), its time argument (free_index has none: the field keeps
\* the time of the call before) and its result.
Call(op, index, time, ret) == [op |-> op, index |-> index, time |-> time, ret |-> ret]

\* fresh.outs lists the index_out of every call made since construction
\* (NoIndex for a call that returned false) while all of them were
\* allocate_new_index and there were at most index_range + 1 of them;
\* fresh.live is false from then on.
NotFresh == [live |-> FALSE, outs |-> <<>>]

FreshAfterAllocate(index_out) ==
  IF fresh.live /\ Len(fresh.outs) <= index_range
  THEN [live |-> TRUE, outs |-> Append(fresh.outs, index_out)]
  ELSE NotFresh

\* The objects as constructed, all but the clock.
InitObjects ==
  /\ index_range \in 1 .. MaxIndexRange
  /\ cells = DoubleChain(index_range)
  /\ timestamps = InitTimestamps(index_range)
  /\ last = Call("DoubleChain", NoIndex, 0, TRUE)
  /\ fresh = [live |-> TRUE, outs |-> <<>>]
  /\ flow_to_index = EmptyMap
  /\ index_to_flow = [i \in 0 .. (index_range - 1) |-> DefaultFlow]
  /\ first_seen = [f \in Flows |-> NoTime]
  /\ tcall = TrackerCall("FlowTracker", DefaultFlow, 0, TRUE, 0)
  /\ panicked = FALSE
  /\ report = report_t
  /\ flows = {}
  /\ concurrent_flows_per_epoch = << {} >>
  /\ fed = Packet(0, NoFlow)
  /\ ticks = [sounded |-> 0, last_sound |-> NoTime]

Init ==
  /\ InitObjects
  /\ clock = simulator_clock_t(DEFAULT_EPOCH_DURATION_NS)
  /\ replay = NoReplay

AllocateNewIndex ==
  \E time \in Times :
    LET r == allocate_new_index(cells, timestamps, time)
    IN  /\ cells' = r.cells
        /\ timestamps' = r.timestamps
        /\ last' = Call("allocate_new_index", r.index_out, time, r.ret)
        /\ fresh' = FreshAfterAllocate(r.index_out)
        /\ UNCHANGED <<index_range, trackerVars, driverVars>>

RejuvenateIndex ==
  \E index \in Slots, time \in Times :
    LET r == rejuvenate_index(cells, timestamps, index, time)
    IN  /\ cells' = r.cells
        /\ timestamps' = r.timestamps
        /\ last' = Call("rejuvenate_index", index, time, r.ret)
        /\ fresh' = NotFresh
        /\ UNCHANGED <<index_range, trackerVars, driverVars>>

FreeIndex ==
  \E index \in Slots :
    LET r == free_index(cells, timestamps, index)
    IN  /\ cells' = r.cells
        /\ timestamps' = r.timestamps
        /\ last' = Call("free_index", index, last.time, r.ret)
        /\ fresh' = NotFresh
        /\ UNCHANGED <<index_range, trackerVars, driverVars>>

ExpireOneIndex ==
  \E time \in Times :
    LET r == expire_one_index(cells, timestamps, time)
    IN  /\ cells' = r.cells
        /\ timestamps' = r.timestamps
        /\ last' = Call("expire_one_index", r.index_out, time, r.ret)
        /\ fresh' = NotFresh
        /\ UNCHANGED <<index_range, trackerVars, driverVars>>

\* is_index_allocated is const and takes no time: only the call record moves.
IsIndexAllocated ==
  \E index \in Slots :
    /\ last' = Call("is_index_allocated", index, last.time, is_index_allocated(cells, index))
    /\ fresh' = NotFresh
    /\ UNCHANGED <<index_range, cells, timestamps, trackerVars, driverVars>>

Next ==
  \/ AllocateNewIndex
  \/ RejuvenateIndex
  \/ FreeIndex
  \/ ExpireOneIndex
  \/ IsIndexAllocated

Spec == Init /\ [][Next]_vars

\* The callers of the time-taking operations never go back in time.
NoTimeTravel == last'.time >= last.time

NextMono ==
  \/ AllocateNewIndex /\ NoTimeTravel
  \/ RejuvenateIndex /\ NoTimeTravel
  \/ FreeIndex /\ NoTimeTravel
  \/ ExpireOneIndex /\ NoTimeTravel
  \/ IsIndexAllocated /\ NoTimeTravel

SpecMono == Init /\ [][NextMono]_vars

----------------------------------------------------------------------------
\* The callers of FlowTracker; its DoubleChain is private, so only these
\* three reach it (last and fresh, the record of a direct user of the
\* DoubleChain, stay as they are).  first_seen keeps, for a tracked flow, the
\* now of the add_flow that started tracking it.
HasFlow ==
  \E flow \in Flows :
    /\ ~panicked
    /\ tcall' = TrackerCall("has_flow", flow, 0, has_flow(flow_to_index, flow), 0)
    /\ UNCHANGED <<index_range, cells, timestamps, last, fresh,
                   flow_to_index, index_to_flow, first_seen, panicked, driverVars>>

AddFlow ==
  \E flow \in Flows, now \in Times :
    LET r == add_flow(cells, timestamps, flow_to_index, index_to_flow, flow, now)
    IN  /\ ~panicked
        /\ cells' = r.cells
        /\ timestamps' = r.timestamps
        /\ flow_to_index' = r.flow_to_index
        /\ index_to_flow' = r.index_to_flow
        /\ panicked' = r.panic
        /\ tcall' = TrackerCall("add_flow", flow, now, ~r.panic, 0)
        /\ first_seen' = IF r.called /\ r.ret THEN [first_seen EXCEPT ![flow] = now] ELSE first_seen
        /\ UNCHANGED <<index_range, last, fresh, driverVars>>

ExpireFlows ==
  \E now \in Times :
    LET r == expire_flows(cells, timestamps, flow_to_index, index_to_flow, now)
    IN  /\ ~panicked
        /\ cells' = r.cells
        /\ timestamps' = r.timestamps
        /\ flow_to_index' = r.flow_to_index
        /\ index_to_flow' = r.index_to_flow
        /\ tcall' = TrackerCall("expire_flows", DefaultFlow, now, TRUE, r.count)
        /\ first_seen' = [f \in Flows |-> IF f \in DOMAIN r.flow_to_index THEN first_seen[f] ELSE NoTime]
        /\ UNCHANGED <<index_range, last, fresh, panicked, driverVars>>

NextTracker ==
  \/ HasFlow
  \/ AddFlow
  \/ ExpireFlows

InitTracker == Init /\ index_range <= MaxCapacity

SpecTracker == InitTracker /\ [][NextTracker]_vars

----------------------------------------------------------------------------
\* A caller of feed_packet, with any packet.
FeedPacket ==
  \E ts \in PktTimes, flow \in Flows \cup {NoFlow} :
    LET r == feed_packet(clock, report, flows, concurrent_flows_per_epoch, Packet(ts, flow))
    IN  /\ report.total_pkts < MaxPkts
        /\ clock' = r.clock
        /\ report' = r.report
        /\ flows' = r.flows
        /\ concurrent_flows_per_epoch' = r.concurrent_flows_per_epoch
        /\ fed' = Packet(ts, flow)
        /\ ticks' = Ticked(ticks, r.sound_alarm, ts)
        /\ UNCHANGED <<index_range, cells, timestamps, last, fresh, trackerVars, replay>>

NextDriver == FeedPacket

\* main.cpp: traffic_stats_tracker_t is constructed with the value of --epoch.
InitDriver ==
  /\ InitObjects
  /\ index_range <= MaxCapacity
  /\ \E d \in EpochDurations : clock = simulator_clock_t(d)
  /\ replay = NoReplay

SpecDriver == InitDriver /\ [][NextDriver]_vars

----------------------------------------------------------------------------
\* trace_replayer (main.cpp).  The while test; when it holds, base_time is
\* taken, pcap_reader_t reader(pcap_file) is constructed and packet_t packet
\* is declared (flow: std::nullopt).  The constructor opens the file and no
\* reader is closed: when the process can open no more files,
\* get_file_signature returns nothing and the constructor calls
\* panic("Unknown file format").  For a DLT_RAW file the constructor sets
\* assume_ip; for an Ethernet file it leaves assume_ip unwritten: the reader
\* starts with either value.
ReplayWhile ==
  /\ replay.pc = "while"
  /\ ~panicked
  /\ IF ~(report.end - report.start < clock.epoch_duration)
     THEN /\ replay' = [replay EXCEPT !.pc = "done"]
          /\ UNCHANGED panicked
     ELSE IF replay.open >= MaxOpenFiles
     THEN /\ panicked' = ~panic_returns
          /\ replay' = [replay EXCEPT !.base_time = report.end - report.start]
     ELSE /\ \E assume_ip \in IF replay.linktype = "DLT_RAW" THEN {TRUE} ELSE BOOLEAN :
               replay' = Replayer(replay.linktype, replay.trace, 1,
                                  report.end - report.start, "read",
                                  assume_ip, NoFlow, replay.open + 1)
          /\ UNCHANGED panicked
  /\ UNCHANGED <<index_range, cells, timestamps, last, fresh,
                 flow_to_index, index_to_flow, first_seen, tcall,
                 clock, report, flows, concurrent_flows_per_epoch, fed, ticks>>

\* One round of the read loop: read_next_packet(packet) returned true;
\* packet.ts += base_time; feed_packet(packet).
ReplayFeed ==
  /\ replay.pc = "read"
  /\ replay.pos <= Len(replay.trace)
  /\ LET read == read_next_packet(replay.assume_ip, replay.flow, replay.trace[replay.pos])
         packet == Packet(read.ts + replay.base_time, read.flow)
         r == feed_packet(clock, report, flows, concurrent_flows_per_epoch, packet)
     IN  /\ clock' = r.clock
         /\ report' = r.report
         /\ flows' = r.flows
         /\ concurrent_flows_per_epoch' = r.concurrent_flows_per_epoch
         /\ fed' = packet
         /\ ticks' = Ticked(ticks, r.sound_alarm, packet.ts)
         /\ replay' = [replay EXCEPT !.pos = @ + 1, !.flow = read.flow]
  /\ UNCHANGED <<index_range, cells, timestamps, last, fresh, trackerVars>>

\* read_next_packet returned false: the pass is over.
ReplayEndOfFile ==
  /\ replay.pc = "read"
  /\ replay.pos > Len(replay.trace)
  /\ replay' = [replay EXCEPT !.pc = "while"]
  /\ UNCHANGED <<index_range, cells, timestamps, last, fresh, trackerVars,
                 clock, report, flows, concurrent_flows_per_epoch, fed, ticks>>

NextReplay ==
  \/ ReplayWhile
  \/ ReplayFeed
  \/ ReplayEndOfFile

\* main.cpp: the tracker is constructed with --epoch and trace_replayer is
\* called on the capture file.  flow_tracker is not used: its capacity is 1.
InitReplay ==
  /\ InitObjects
  /\ index_range = 1
  /\ \E d \in ShortEpochs : clock = simulator_clock_t(d)
  /\ \E linktype \in LinkTypes : \E trace \in Traces(linktype) :
       replay = Replayer(linktype, trace, 0, 0, "while", FALSE, NoFlow, 0)

\* The function runs on: a step that can be taken is taken.
SpecReplay == InitReplay /\ [][NextReplay]_vars /\ WF_vars(NextReplay)

----------------------------------------------------------------------------
\* Helpers of the properties.
Without(seq, x) == SelectSeq(seq, LAMBDA y : y # x)

NoDuplicates(seq) == \A i, j \in 1 .. Len(seq) : i # j => seq[i] # seq[j]

RECURSIVE Reverse(_)
Reverse(seq) == IF seq = <<>> THEN <<>> ELSE Append(Reverse(Tail(seq)), Head(seq))

IsCall(op) == last'.op = op

\* C1: every real slot is on exactly one of the two lists (the free list and
\* the alloc list, each read by following next from its head), no list holds
\* a sentinel or a slot twice, and the two lengths add up to the capacity.
C1_Partition ==
  /\ \A s \in Slots : (s \in Occupied) # (s \in Free)
  /\ Occupied \cup Free = Slots
  /\ NoDuplicates(AllocSeq \o FreeSeq)
  /\ Len(AllocSeq) + Len(FreeSeq) = index_range

C1_Witness ==
  /\ index_range = MaxIndexRange
  /\ last.op = "expire_one_index" /\ last.ret
  /\ Len(AllocSeq) >= 1 /\ Len(FreeSeq) >= 2

\* C2: on a fresh arena of capacity N the first N allocate_new_index calls
\* return true with distinct slot ids in [0,N) and the (N+1)-th returns false;
\* in any state allocate_new_index returns false exactly when no slot is free,
\* and a successful call takes a slot that was free.
C2_FreshRun ==
  fresh.live =>
    /\ \A k \in 1 .. Len(fresh.outs) :
         IF k <= index_range THEN fresh.outs[k] \in Slots ELSE fresh.outs[k] = NoIndex
    /\ NoDuplicates(fresh.outs)
    /\ Len(fresh.outs) >= 1 => last.ret = (Len(fresh.outs) <= index_range)

C2_AllocateStep ==
  IsCall("allocate_new_index") =>
    /\ last'.ret = (Free # {})
    /\ last'.ret => /\ last'.index \in Free
                    /\ last'.index \in Occupied'
                    /\ Cardinality(Free') = Cardinality(Free) - 1

C2_CapacityBound == [](C2_FreshRun) /\ [][C2_AllocateStep]_vars

C2_Witness ==
  /\ index_range = MaxIndexRange
  /\ fresh.live /\ Len(fresh.outs) = index_range + 1
  /\ last.op = "allocate_new_index" /\ ~last.ret

\* C3: a call that returns false leaves every cell's links, both list heads
\* and the timestamp table as they were.
C3_FailureStep == ~last'.ret => cells' = cells /\ timestamps' = timestamps

C3_FailureLeavesArena == [][C3_FailureStep]_vars

C3_Witness ==
  /\ last.op = "expire_one_index" /\ ~last.ret
  /\ last.index # NoIndex
  /\ Len(FreeSeq) >= 1

\* C4: free_index returns true exactly when the slot was occupied, and the
\* slot is free afterwards; a second free_index of the same slot right after
\* returns false and changes neither count.
C4_FreeStep ==
  IsCall("free_index") =>
    LET s == last'.index
    IN  /\ last'.ret = (s \in Occupied)
        /\ s \in Free'
        /\ last'.ret => Occupied' = Occupied \ {s} /\ Free' = Free \cup {s}
        /\ ~last'.ret => Len(AllocSeq') = Len(AllocSeq) /\ Len(FreeSeq') = Len(FreeSeq)
        /\ (last.op = "free_index" /\ last.index = s /\ last.ret) =>
              /\ ~last'.ret
              /\ Len(AllocSeq') = Len(AllocSeq) /\ Len(FreeSeq') = Len(FreeSeq)

C4_FreeIndex == [][C4_FreeStep]_vars

C4_Witness ==
  /\ last.op = "free_index" /\ last.ret
  /\ AllocSeq = <<>>
  /\ index_range >= 2
  /\ Head(FreeSeq) = last.index

\* C5: the free list is a stack: a successful free_index or eviction pushes
\* the slot on its head, a successful allocate_new_index pops the head and
\* returns it, nothing else touches it; so an allocation right after a
\* successful free or eviction of s returns s.
C5_StackStep ==
  /\ (last'.op \in {"free_index", "expire_one_index"} /\ last'.ret) =>
        FreeSeq' = <<last'.index>> \o FreeSeq
  /\ (IsCall("allocate_new_index") /\ last'.ret) =>
        /\ last'.index = Head(FreeSeq)
        /\ FreeSeq' = Tail(FreeSeq)
  /\ (IsCall("rejuvenate_index") \/ ~last'.ret) => FreeSeq' = FreeSeq
  /\ (last.op \in {"free_index", "expire_one_index"} /\ last.ret /\ IsCall("allocate_new_index")) =>
        last'.ret /\ last'.index = last.index

C5_LifoReuse == [][C5_StackStep]_vars

C5_Witness ==
  /\ last.op = "allocate_new_index" /\ last.ret /\ last.index = 1
  /\ AllocSeq = <<0, 2, 1>>

\* C6: rejuvenate_index on an occupied slot returns true, moves the slot to
\* the newest end (ALLOC_LIST_HEAD.prev) and keeps the order of the others;
\* touching the oldest of several makes the second oldest the oldest.
C6_RejuvenateStep ==
  (IsCall("rejuvenate_index") /\ last'.index \in Occupied) =>
    LET s == last'.index
    IN  /\ last'.ret
        /\ AllocSeq' = Append(Without(AllocSeq, s), s)
        /\ cells'[ALLOC_LIST_HEAD].prev = s + INDEX_SHIFT
        /\ AllocSeqBack' = Reverse(AllocSeq')
        /\ (Head(AllocSeq) = s /\ Len(AllocSeq) >= 2) =>
              get_oldest_index(cells') = AllocSeq[2]

C6_Rejuvenate == [][C6_RejuvenateStep]_vars

C6_Witness ==
  /\ last.op = "rejuvenate_index" /\ last.ret /\ last.index = 0
  /\ AllocSeq = <<1, 2, 0>>
  /\ timestamps[0] > timestamps[2]

\* C7: after a rejuvenate_index or allocate_new_index that returned true the
\* slot's stored timestamp is the time argument of the call.
C7_TimestampRefreshed ==
  (last.op \in {"rejuvenate_index", "allocate_new_index"} /\ last.ret) =>
    timestamps[last.index] = last.time

\* Stored timestamps along the alloc list, oldest first.
AllocStamps == [i \in 1 .. Len(AllocSeq) |-> timestamps[AllocSeq[i]]]

\* C8 as stated: the alloc list, walked oldest to newest, has strictly
\* increasing stored timestamps.
C8_StrictlyIncreasing ==
  \A i \in 1 .. (Len(AllocStamps) - 1) : AllocStamps[i] < AllocStamps[i + 1]

\* C8 amended: when the callers' time arguments never decrease, the alloc
\* list, walked oldest to newest, has non-decreasing stored timestamps.
C8_NonDecreasing ==
  \A i \in 1 .. (Len(AllocStamps) - 1) : AllocStamps[i] <= AllocStamps[i + 1]

C8_Witness ==
  /\ last.op = "rejuvenate_index" /\ last.ret /\ last.index = 0
  /\ AllocSeq = <<1, 2, 0>>
  /\ AllocStamps = <<0, EXPIRATION_TIME_NS, 2 * EXPIRATION_TIME_NS + 1>>

\* C9: expire_one_index returns true exactly when some slot is occupied and
\* the oldest one's timestamp is strictly below time - EXPIRATION_TIME_NS; it
\* then frees that slot and no other; otherwise no slot changes list.
C9_ExpireStep ==
  IsCall("expire_one_index") =>
    LET due == /\ AllocSeq # <<>>
               /\ timestamps[Head(AllocSeq)] < last'.time - 1000000000
    IN  /\ last'.ret = due
        /\ due => /\ last'.index = Head(AllocSeq)
                  /\ Occupied' = Occupied \ {last'.index}
                  /\ Free' = Free \cup {last'.index}
        /\ ~due => Occupied' = Occupied /\ Free' = Free
        /\ Cardinality(Occupied) - Cardinality(Occupied') \in {0, 1}

C9_ExpireOne == [][C9_ExpireStep]_vars

C9_Witness ==
  /\ last.op = "expire_one_index" /\ ~last.ret
  /\ last.index # NoIndex
  /\ timestamps[last.index] = last.time - EXPIRATION_TIME_NS
  /\ Len(AllocSeq) >= 2

\* C10: successive expire_one_index calls evict along the alloc list, oldest
\* first: a successful call takes the head of the list and leaves the rest in
\* order, so the next call faces the former second oldest; with nothing
\* occupied, or the oldest not past its age, the call returns false.
C10_EvictionStep ==
  IsCall("expire_one_index") =>
    /\ last'.ret => /\ AllocSeq # <<>>
                    /\ last'.index = Head(AllocSeq)
                    /\ AllocSeq' = Tail(AllocSeq)
                    /\ Len(AllocSeq) >= 2 => get_oldest_index(cells') = AllocSeq[2]
    /\ ~last'.ret => AllocSeq' = AllocSeq
    /\ AllocSeq = <<>> => ~last'.ret
    /\ (last.op = "expire_one_index" /\ ~last.ret /\ last.time = last'.time) => ~last'.ret

C10_EvictionOrder == [][C10_EvictionStep]_vars

C10_Witness ==
  /\ last = Call("expire_one_index", 1, 2 * EXPIRATION_TIME_NS + 1, TRUE)
  /\ timestamps[0] = 0 /\ timestamps[1] = EXPIRATION_TIME_NS
  /\ AllocSeq = <<>>
  /\ SubSeq(FreeSeq, 1, 2) = <<1, 0>>

----------------------------------------------------------------------------
\* FlowTracker.
IsTrackerCall(op) == tcall'.op = op

Keys == DOMAIN flow_to_index

\* C11: the key layer and the arena agree: every key of flow_to_index maps
\* to a slot that is Occupied and index_to_flow at that slot is the key,
\* distinct keys map to distinct slots, and there are as many keys as
\* Occupied slots.
C11_KeyLayerAgrees ==
  /\ \A k \in Keys :
       /\ flow_to_index[k] \in Occupied
       /\ index_to_flow[flow_to_index[k]] = k
  /\ \A k1, k2 \in Keys : k1 # k2 => flow_to_index[k1] # flow_to_index[k2]
  /\ Cardinality(Keys) = Cardinality(Occupied)

\* Two flows tracked, then one of them expired while the other stays.
C11_Witness ==
  /\ tcall.op = "expire_flows" /\ tcall.count = 1
  /\ Cardinality(Keys) = 1
  /\ \E s \in Free : index_to_flow[s] \notin Keys /\ index_to_flow[s] # DefaultFlow

\* C12: add_flow of a flow that has_flow reports present changes nothing:
\* the arena (so the slot's place in the alloc list and its timestamp, still
\* the now of the first insertion) and both tables stay as they were, and no
\* slot is allocated.
C12_AddPresentStep ==
  (IsTrackerCall("add_flow") /\ has_flow(flow_to_index, tcall'.flow)) =>
    /\ UNCHANGED <<cells, timestamps, flow_to_index, index_to_flow>>
    /\ AllocSeq' = AllocSeq
    /\ timestamps'[flow_to_index'[tcall'.flow]] = first_seen[tcall'.flow]
    /\ ~panicked'

C12_AddFlowIdempotent == [][C12_AddPresentStep]_vars

\* add_flow(k, t1) of a tracked flow k first inserted at t0 # t1.
C12_Witness ==
  /\ tcall.op = "add_flow"
  /\ has_flow(flow_to_index, tcall.flow)
  /\ timestamps[flow_to_index[tcall.flow]] # tcall.now
  /\ Cardinality(Keys) = 2

\* C13: expire_flows returns the number of keys it removed: a key whose slot
\* the sweep evicted is absent afterwards, every other key is still mapped to
\* the slot it had, no key appears, and the count is keys before minus keys
\* after.
C13_ExpireFlowsStep ==
  IsTrackerCall("expire_flows") =>
    LET evicted == Occupied \ Occupied'
    IN  /\ \A k \in Keys :
             IF flow_to_index[k] \in evicted
             THEN ~has_flow(flow_to_index', k)
             ELSE has_flow(flow_to_index', k) /\ flow_to_index'[k] = flow_to_index[k]
        /\ Keys' \subseteq Keys
        /\ tcall'.count = Cardinality(Keys) - Cardinality(Keys')
        /\ tcall'.count = Cardinality(evicted)

C13_ExpireFlowsCount == [][C13_ExpireFlowsStep]_vars

\* A sweep that removed both tracked flows.
C13_Witness ==
  /\ tcall.op = "expire_flows" /\ tcall.count = 2
  /\ Keys = {}
  /\ Occupied = {}

\* C14: add_flow of a new key while every slot is Occupied comes back to the
\* caller with the tracker as it was and still usable: the call returns, the
\* arena and both tables are unchanged, and later calls are served.
C14_ExhaustedStep ==
  (IsTrackerCall("add_flow") /\ ~has_flow(flow_to_index, tcall'.flow) /\ Free = {}) =>
    /\ tcall'.ret
    /\ UNCHANGED <<cells, timestamps, flow_to_index, index_to_flow>>
    /\ ~panicked'

C14_ExhaustionRecoverable == [][C14_ExhaustedStep]_vars

\* C15: a key that expire_flows removed is Unseen again: add_flow of an absent
\* key into a tracker with a Free slot makes has_flow true, gives the key the
\* slot at the head of the free list with the now of this call as its
\* timestamp, at the newest end of the alloc list, and writes the key over
\* whatever index_to_flow held for the slot; and expire_flows removes, for
\* each slot it evicts, the key that owns the slot now, never the key a stale
\* index_to_flow entry of another slot names.
C15_AddAbsentStep ==
  (IsTrackerCall("add_flow") /\ ~has_flow(flow_to_index, tcall'.flow) /\ FreeSeq # <<>>) =>
    LET k == tcall'.flow
        slot == Head(FreeSeq)
    IN  /\ has_flow(flow_to_index', k)
        /\ flow_to_index'[k] = slot
        /\ timestamps'[slot] = tcall'.now
        /\ AllocSeq' = Append(AllocSeq, slot)
        /\ index_to_flow'[slot] = k
        /\ \A j \in Keys : has_flow(flow_to_index', j) /\ flow_to_index'[j] = flow_to_index[j]

C15_ExpireOwnerStep ==
  IsTrackerCall("expire_flows") =>
    \A k \in Keys \ Keys' :
      /\ flow_to_index[k] \in Occupied \ Occupied'
      /\ index_to_flow[flow_to_index[k]] = k

C15_Lifecycle == [][C15_AddAbsentStep /\ C15_ExpireOwnerStep]_vars

\* k1 and k2 were tracked in slots 0 and 1 and both expired; k1 is added
\* again and gets slot 1, the slot k2 had, while the entry of slot 0 still
\* names k1.
C15_Witness ==
  \E k \in Flows \ {DefaultFlow} :
    /\ tcall.op = "add_flow" /\ tcall.flow = k
    /\ Keys = {k}
    /\ flow_to_index[k] = 1
    /\ timestamps[1] = tcall.now
    /\ 0 \in Free /\ index_to_flow[0] = k

\* C16: a key's expiry depends on the time of the insertion that started
\* tracking it and on nothing else: the timestamp of a tracked key's slot is
\* that time whatever add_flow calls followed, and expire_flows(now) removes
\* a key exactly when that time of the key and of every key before it in the
\* alloc list is less than now - EXPIRATION_TIME_NS.
C16_StampIsFirstInsertion ==
  \A k \in Keys : timestamps[flow_to_index[k]] = first_seen[k]

C16_ExpireStep ==
  IsTrackerCall("expire_flows") =>
    \A i \in 1 .. Len(AllocSeq) :
      LET k == index_to_flow[AllocSeq[i]]
      IN  ~has_flow(flow_to_index', k) <=>
            \A j \in 1 .. i :
              first_seen[index_to_flow[AllocSeq[j]]] < tcall'.now - EXPIRATION_TIME_NS

C16_FirstInsertionDecides == [][C16_StampIsFirstInsertion' /\ C16_ExpireStep]_vars

\* A flow first inserted at 0 is seen again by add_flow at
\* 2 * EXPIRATION_TIME_NS + 1 while a younger flow is tracked too; its slot
\* still carries 0, so a sweep at the time it was just seen removes it.
C16_Witness ==
  /\ tcall.op = "add_flow"
  /\ has_flow(flow_to_index, tcall.flow)
  /\ first_seen[tcall.flow] = 0
  /\ tcall.now = 2 * EXPIRATION_TIME_NS + 1
  /\ is_expired(timestamps[flow_to_index[tcall.flow]], tcall.now)
  /\ \E j \in Keys : first_seen[j] = tcall.now

----------------------------------------------------------------------------
\* C17: the test on the two links agrees with list membership: after every
\* call is_index_allocated reports a slot allocated exactly when the slot is
\* on the alloc list, rejuvenate_index and free_index succeed exactly on the
\* slots that are on it, and is_index_allocated leaves the arena as it was.
C17_MembershipStep ==
  /\ \A s \in Slots : is_index_allocated(cells', s) <=> s \in Occupied'
  /\ IsCall("is_index_allocated") =>
       /\ last'.ret = (last'.index \in Occupied)
       /\ UNCHANGED <<cells, timestamps>>
  /\ (IsCall("rejuvenate_index") \/ IsCall("free_index")) =>
       last'.ret = (last'.index \in Occupied)

C17_EncodingAgrees == [][C17_MembershipStep]_vars

\* The only allocated cell, whose two links are equal, is reported allocated
\* while a Free cell next to it is not.
C17_Witness ==
  /\ last.op = "is_index_allocated" /\ last.ret
  /\ cells[last.index + INDEX_SHIFT].prev = cells[last.index + INDEX_SHIFT].next
  /\ Occupied = {last.index}
  /\ Free # {}

\* C18: with callers whose times never decrease, once expire_one_index(now)
\* has returned false no slot on the alloc list, wherever it is on it, has a
\* timestamp less than now - EXPIRATION_TIME_NS.
C18_SweepComplete ==
  (last.op = "expire_one_index" /\ ~last.ret) =>
    \A s \in Occupied : ~(timestamps[s] < last.time - EXPIRATION_TIME_NS)

\* The slot allocated at EXPIRATION_TIME_NS is gone, the one allocated at
\* 2 * EXPIRATION_TIME_NS + 1 is left, and the sweep at that time has ended.
C18_Witness ==
  /\ last.op = "expire_one_index" /\ ~last.ret
  /\ last.time = 2 * EXPIRATION_TIME_NS + 1
  /\ Occupied = {1}
  /\ timestamps[1] = 2 * EXPIRATION_TIME_NS + 1
  /\ 0 \in Free /\ timestamps[0] = EXPIRATION_TIME_NS

\* C19: the difference now - EXPIRATION_TIME_NS is signed: with timestamps
\* that are not negative, expire_one_index(now) with 0 <= now <
\* EXPIRATION_TIME_NS returns false and evicts nothing.
C19_EarlySweepStep ==
  ( /\ IsCall("expire_one_index")
    /\ 0 <= last'.time /\ last'.time < EXPIRATION_TIME_NS
    /\ \A s \in Slots : timestamps[s] >= 0 ) =>
      /\ ~last'.ret
      /\ UNCHANGED <<cells, timestamps>>

C19_SignedAgeTest == [][C19_EarlySweepStep]_vars

\* expire_one_index(0) on an arena whose oldest slot was stamped 0.
C19_Witness ==
  /\ last.op = "expire_one_index" /\ last.time = 0 /\ ~last.ret
  /\ last.index # NoIndex
  /\ timestamps[last.index] = 0
  /\ last.index \in Occupied

----------------------------------------------------------------------------
\* C20: feed_packet uses the tracker once per record: after it has processed
\* a packet that carries flow k, flow_tracker has k, and when the epoch clock
\* fires the sweep expire_flows is run.
C20_FeedStep ==
  report'.total_pkts = report.total_pkts + 1 =>
    /\ fed'.flow # NoFlow => has_flow(flow_to_index', fed'.flow)
    /\ Len(concurrent_flows_per_epoch') > Len(concurrent_flows_per_epoch) =>
         tcall'.op = "expire_flows"

C20_DriverUsesTracker == [][C20_FeedStep]_vars

----------------------------------------------------------------------------
\* C21: trace_replayer returns for every capture file that holds a packet
\* and every epoch_duration > 0: shifting the timestamps by base_time =
\* report.end - report.start makes report.end - report.start reach
\* epoch_duration after finitely many passes over the file.
C21_ReplayTerminates == <>(replay.pc = "done")

----------------------------------------------------------------------------
\* C22: the epoch clock, ticked by feed_packet with the timestamp of every
\* packet that carries a flow: the first tick returns false and sets the
\* alarm; a later tick returns true exactly when now >= alarm, and then sets
\* alarm = now + epoch_duration, so a tick that returns true comes at least
\* epoch_duration after the last one that did; a tick that returns false
\* after the first leaves the clock as it was; and concurrent_flows_per_epoch
\* has one entry more than there were ticks that returned true.
C22_TickStep ==
  LET now == fed'.ts
      sound_alarm == ticks'.sounded = ticks.sounded + 1
  IN  /\ ticks'.sounded \in {ticks.sounded, ticks.sounded + 1}
      /\ Len(concurrent_flows_per_epoch') = 1 + ticks'.sounded
      /\ fed'.flow = NoFlow => (clock' = clock /\ ~sound_alarm)
      /\ (fed'.flow # NoFlow /\ ~clock.on) =>
           /\ ~sound_alarm
           /\ clock'.on /\ clock'.alarm = now + clock.epoch_duration
      /\ (fed'.flow # NoFlow /\ clock.on) =>
           /\ sound_alarm <=> now >= clock.alarm
           /\ sound_alarm => clock'.alarm = now + clock.epoch_duration
           /\ ~sound_alarm => clock' = clock
      /\ (sound_alarm /\ ticks.last_sound # NoTime) =>
           now - ticks.last_sound >= clock.epoch_duration

C22_EpochClock == [][C22_TickStep]_vars

\* Two ticks have returned true, the second at the default epoch after the
\* first, and a third set is open in concurrent_flows_per_epoch.
C22_Witness ==
  /\ ticks.sounded = 2
  /\ ticks.last_sound = DEFAULT_EPOCH_DURATION_NS
  /\ clock.alarm = DEFAULT_EPOCH_DURATION_NS + clock.epoch_duration
  /\ Len(concurrent_flows_per_epoch) = 3
  /\ fed.flow # NoFlow

----------------------------------------------------------------------------
Lifted(s) == cells[s + INDEX_SHIFT]

\* C23, as the header comment of double_chain.cpp has it: every cell on the
\* alloc list has prev # next and every cell on the free list has prev = next.
\* allocate_new_index into an empty alloc list breaks it: the cell gets both
\* links at ALLOC_LIST_HEAD.
C23_LinksTellLists ==
  /\ \A s \in Occupied : Lifted(s).prev # Lifted(s).next
  /\ \A s \in Free : Lifted(s).prev = Lifted(s).next

====
